---------------------------- MODULE Spec2Model ----------------------------
(***************************************************************************)
(* lighthouse-check-status-action: a GitHub action that reads five minimum *)
(* score inputs and the lighthouseCheckResults input and marks the         *)
(* workflow failed (core.setFailed) when scores are too low.               *)
(*                                                                         *)
(* The source tree holds three generations of the entry point:             *)
(*   src/index.js                      compares the scores itself          *)
(*   src/unnamed/part_001              delegates to validateStatus         *)
(*   src/node_modules/.../main-thread-tasks.js, lines 268-327              *)
(*                                     awaits validateStatus and handles   *)
(*                                     the no-threshold case               *)
(* Each is modelled as its own specification over the same variables.      *)
(* The rest of main-thread-tasks.js is Lighthouse's MainThreadTasks, whose *)
(* _createTasksFromEvents is a further specification.                      *)
(***************************************************************************)
EXTENDS Integers, Sequences, FiniteSets, TLC

VARIABLES
    pc,             \* position of the run
    inputs,         \* what core.getInput returns, per input name
    args,           \* the argument object of getFailureMessages
    failures,       \* the value returned by getFailureMessages
    setFailedCalls, \* the texts core.setFailed was called with, in order
    validateCalls,  \* the argument objects validateStatus was called with
    promise,        \* state of the promise returned by validateStatus
    unhandled,      \* messages of rejections no handler received
    mainThreadEvents, \* the trace events given to _createTasksFromEvents
    eventIndex,     \* position of its for loop in mainThreadEvents
    tasks,          \* its list of TaskNodes
    currentTask,    \* index in `tasks` of its currentTask, 0 for undefined
    thrown          \* message of the error it threw, "" for none

traceVars == <<mainThreadEvents, eventIndex, tasks, currentTask, thrown>>

vars == <<pc, inputs, args, failures, setFailedCalls, validateCalls, promise, unhandled,
          mainThreadEvents, eventIndex, tasks, currentTask, thrown>>

\* no trace is being processed
NoTrace ==
    /\ mainThreadEvents = <<>>
    /\ eventIndex = 0
    /\ tasks = <<>>
    /\ currentTask = 0
    /\ thrown = ""

---------------------------------------------------------------------------
(* Bounds of the model.                                                    *)

\* largest number of AuditResults in a payload's data array
MaxResults == 2

\* largest number of trace events in mainThreadEvents
MaxEvents == 3

\* largest timestamp (ts) of a trace event
MaxTs == 3

\* largest duration (dur) of a Complete event
MaxDur == 2

---------------------------------------------------------------------------
(* JavaScript values, tagged by type.                                      *)

Undefined == [t |-> "undefined"]
Null == [t |-> "null"]
NaN == [t |-> "NaN"]
Bool(b) == [t |-> "boolean", v |-> b]
Str(s) == [t |-> "string", v |-> s]
Num(n) == [t |-> "number", v |-> n]
Arr(s) == [t |-> "array", v |-> s]

\* ToBoolean: what `!x`, `x || y` and `if (x)` test
Truthy(x) ==
    CASE x.t = "undefined" -> FALSE
      [] x.t = "null" -> FALSE
      [] x.t = "NaN" -> FALSE
      [] x.t = "boolean" -> x.v
      [] x.t = "string" -> x.v # ""
      [] x.t = "number" -> x.v # 0
      [] OTHER -> TRUE

\* the decimal strings among the modelled inputs, with their values
DecimalStrings == {<<"0", 0>>, <<"50", 50>>, <<"95", 95>>}

\* Number(x): numeric strings parse, other text is NaN, true is 1, false is 0
Number(x) ==
    CASE x.t = "number" -> x
      [] x.t = "boolean" -> IF x.v THEN Num(1) ELSE Num(0)
      [] x.t = "null" -> Num(0)
      [] x.t = "string" ->
            IF x.v = "" THEN Num(0)
            ELSE IF \E d \in DecimalStrings : d[1] = x.v
                 THEN Num((CHOOSE d \in DecimalStrings : d[1] = x.v)[2])
                 ELSE NaN
      [] OTHER -> NaN

\* a < b on numbers: false as soon as one side is NaN
LessThan(a, b) == a.t = "number" /\ b.t = "number" /\ a.v < b.v

\* `${x}` in a template literal
TemplateString(x) ==
    CASE x.t = "string" -> x.v
      [] x.t = "number" -> ToString(x.v)
      [] x.t = "boolean" -> IF x.v THEN "true" ELSE "false"
      [] x.t = "undefined" -> "undefined"
      [] x.t = "null" -> "null"
      [] OTHER -> "NaN"

---------------------------------------------------------------------------
(* The five categories, in the order getFailureMessages visits them.       *)

CategoryOrder == <<"accessibility", "bestPractices", "performance", "progressiveWebApp", "seo">>

Categories == {CategoryOrder[i] : i \in DOMAIN CategoryOrder}

\* the `name` each call site of getScoreFailMessage passes
DisplayName(c) ==
    CASE c = "accessibility" -> "Accessibility"
      [] c = "bestPractices" -> "Best Practices"
      [] c = "performance" -> "Performance"
      [] c = "progressiveWebApp" -> "Progressive Web App"
      [] c = "seo" -> "SEO"

---------------------------------------------------------------------------
(* src/index.js                                                            *)

normalizeInput(input) ==
    IF input = "true" THEN Bool(TRUE)
    ELSE IF input = "false" THEN Bool(FALSE)
    ELSE IF input = "" THEN Undefined
    ELSE Str(input)

\* getScoreFailMessage with `!score` left out of the guard and a missing
\* score counted as 0 (`Number(score || 0)`).
getScoreFailMessageNoScoreGuard(name, url, minScore, score) ==
    IF ~Truthy(minScore) THEN <<>>
    ELSE IF LessThan(Number(IF Truthy(score) THEN score ELSE Num(0)), Number(minScore))
         THEN <<url \o ": " \o name \o ": minimum score: " \o TemplateString(minScore)
                    \o ", actual score: " \o TemplateString(score)>>
         ELSE <<>>

\* Returns the list of messages of one (result, category) pair: empty or one
\* message.
getScoreFailMessage(name, url, minScore, score) ==
    IF ~Truthy(minScore) \/ ~Truthy(score) THEN <<>>
    ELSE IF LessThan(Number(score), Number(minScore))
         THEN <<url \o ": " \o name \o ": minimum score: " \o TemplateString(minScore)
                    \o ", actual score: " \o TemplateString(score)>>
         ELSE <<>>

\* The five spreads of one reduce step, for the result `current`. The spread
\* of `current` into each argument object contributes its url: an
\* AuditResult holds url and scores, and no name, minScore or score of its
\* own that would replace the ones passed.
MessagesOfResult(min, current) ==
    LET m(i) == getScoreFailMessage(DisplayName(CategoryOrder[i]), current.url,
                                    min[CategoryOrder[i]], current.scores[CategoryOrder[i]])
    IN  m(1) \o m(2) \o m(3) \o m(4) \o m(5)

RECURSIVE Reduce(_, _, _)
\* results.data.reduce(..., []): the elements of `data` that are left,
\* with accumulator acc
Reduce(min, data, acc) ==
    IF data = <<>> THEN acc
    ELSE Reduce(min, Tail(data), acc \o MessagesOfResult(min, Head(data)))

\* A call either returns a value or throws an error with a message.
Returned(v) == [threw |-> FALSE, value |-> v]
Threw(msg) == [threw |-> TRUE, message |-> msg]

\* x[name] for name in {data, runtimeError}: throws on undefined and null,
\* and is undefined where the value has no such property (a string, an
\* array)
Prop(x, name) ==
    CASE x.t = "undefined" ->
            Threw("Cannot read properties of undefined (reading '" \o name \o "')")
      [] x.t = "null" ->
            Threw("Cannot read properties of null (reading '" \o name \o "')")
      [] x.t = "object" -> Returned(IF name = "data" THEN x.data ELSE x.runtimeError)
      [] OTHER -> Returned(Undefined)

\* the TypeError of `undefined.reduce` / `null.reduce`, and of calling a
\* reduce that is not a function
ReduceOfUndefined == "Cannot read properties of undefined (reading 'reduce')"
ReduceOfNull == "Cannot read properties of null (reading 'reduce')"
ReduceNotFunction == "results.data.reduce is not a function"

getFailureMessages(a) ==
    LET data == Prop(a.results, "data")
    IN  IF data.threw THEN data
        ELSE CASE data.value.t = "undefined" -> Threw(ReduceOfUndefined)
               [] data.value.t = "null" -> Threw(ReduceOfNull)
               [] data.value.t = "array" -> Returned(Reduce(a.min, data.value.v, <<>>))
               [] OTHER -> Threw(ReduceNotFunction)

\* failures.join('\n')
RECURSIVE Join(_)
Join(list) ==
    IF list = <<>> THEN ""
    ELSE IF Len(list) = 1 THEN list[1]
    ELSE list[1] \o "\n" \o Join(Tail(list))

FailureHeader == "Minimum score requirements failed:\n"

---------------------------------------------------------------------------
(* The inputs. core.getInput returns a string for every name: '' when the  *)
(* input is not given. The text of lighthouseCheckResults is modelled by   *)
(* what it holds: nothing, text that is not JSON, or a JSON document.      *)

\* a JSON object with the two properties the code reads (Undefined: the
\* property is missing)
Obj(data, runtimeError) == [t |-> "object", data |-> data, runtimeError |-> runtimeError]

EmptyText == [form |-> "empty"]
InvalidText == [form |-> "invalid"]
JsonText(doc) == [form |-> "json", doc |-> doc]

\* the string value core.getInput returns for a text
InputString(text) == Str(IF text.form = "empty" THEN "" ELSE "text")

UnexpectedEnd == "Unexpected end of JSON input"
UnexpectedToken == "Unexpected token 'o', \"not json\" is not valid JSON"

\* JSON.parse(text)
JSONparse(text) ==
    CASE text.form = "empty" -> Threw(UnexpectedEnd)
      [] text.form = "invalid" -> Threw(UnexpectedToken)
      [] OTHER -> Returned(text.doc)

---------------------------------------------------------------------------
(* The bounded input space.                                                *)

\* texts of a threshold input: not given, decimal, not a number, and the
\* two words normalizeInput turns into booleans
ThresholdTexts == {"", "0", "50", "95", "abc", "true", "false"}

\* a score of a result: missing, or a number
ScoreValues == {Undefined, Num(0), Num(50)}

\* the url of the i-th result of a payload
Urls == <<"https://a.test", "https://b.test", "https://c.test", "https://d.test">>

\* texts of a runtimeError property
ErrorTexts == {"", "X", "NO_FCP"}

\* One run concerns the categories of a set P: a pair of categories, or a
\* single one. The categories outside P have an empty threshold input and
\* no score.
PlaySets == {{a, b} : a, b \in Categories}

\* the threshold inputs that are empty outside P
ThresholdInputs(P) ==
    {[c \in Categories |-> IF c \in P THEN f[c] ELSE ""] : f \in [P -> ThresholdTexts]}

\* the score objects that have no score outside P
ScoreObjects(P) ==
    {[c \in Categories |-> IF c \in P THEN f[c] ELSE Undefined] : f \in [P -> ScoreValues]}

\* the arrays of n AuditResults with scores in P
ResultArrays(P, n) ==
    {[i \in 1..n |-> [url |-> Urls[i], scores |-> f[i]]] : f \in [1..n -> ScoreObjects(P)]}

DataArrays(P) == UNION {ResultArrays(P, n) : n \in 0..MaxResults}

\* documents that are not the expected shape, or carry a runtimeError
OddDocuments ==
    {Null, Obj(Null, Undefined)}
    \cup {Obj(Undefined, e) : e \in {Undefined, Str("X")}}
    \cup {Obj(Obj(Undefined, e), Undefined) : e \in {Undefined} \cup {Str(x) : x \in ErrorTexts}}

\* documents whose data is one of the arrays D, with or without a
\* runtimeError beside it
ArrayDocuments(D) == {Obj(Arr(d), e) : d \in D, e \in {Undefined, Str("X")}}

\* the texts of the lighthouseCheckResults input, for data arrays D
ResultsTexts(D) ==
    {EmptyText, InvalidText} \cup {JsonText(d) : d \in OddDocuments \cup ArrayDocuments(D)}

\* arrays of up to MaxResults results for the entry points that pass the
\* data on to validateStatus without reading it
PlainArrays ==
    {[i \in 1..n |-> [url |-> Urls[i], scores |-> [c \in Categories |-> Num(50)]]] :
        n \in 0..MaxResults}

OutputDirectories == {"", "reports"}

NoValue == [t |-> "none"]

---------------------------------------------------------------------------
(* getFailureMessages as a function: the specification SpecEval applies it *)
(* to every normalized threshold set and every results object.             *)

InitEval ==
    /\ pc = "start"
    /\ \E P \in PlaySets :
         \E m \in ThresholdInputs(P) :
           \E r \in OddDocuments \cup {Obj(Arr(d), Undefined) : d \in DataArrays(P)} :
             args = [min |-> [c \in Categories |-> normalizeInput(m[c])], results |-> r]
    /\ inputs = NoValue
    /\ failures = NoValue
    /\ setFailedCalls = <<>>
    /\ validateCalls = <<>>
    /\ promise = "none"
    /\ unhandled = <<>>
    /\ NoTrace

CallGetFailureMessages ==
    /\ pc = "start"
    /\ pc' = "done"
    /\ failures' = getFailureMessages(args)
    /\ UNCHANGED <<inputs, args, setFailedCalls, validateCalls, promise, unhandled>>
    /\ UNCHANGED traceVars

SpecEval == InitEval /\ [][CallGetFailureMessages]_vars

---------------------------------------------------------------------------
(* src/index.js, lines 80-110: the run. Everything happens in one          *)
(* synchronous try/catch.                                                  *)

\* `a || b || c || d || e` on the five thresholds, as a condition
AnyThreshold(min) == \E c \in Categories : Truthy(min[c])

\* the body of the try block: returns, or throws an error
TryIndexJs(in) ==
    LET min == [c \in Categories |-> normalizeInput(in.min[c])]
        results == InputString(in.lighthouseCheckResults)
        call == getFailureMessages([min |-> min, results |-> results])
    IN  IF AnyThreshold(min)
        THEN IF call.threw THEN call
             ELSE IF Len(call.value) # 0
                  THEN Threw(FailureHeader \o Join(call.value))
                  ELSE Returned(Undefined)
        ELSE Returned(Undefined)

InitIndexJs ==
    /\ pc = "start"
    /\ \E P \in PlaySets :
         \E m \in ThresholdInputs(P) :
           \E r \in ResultsTexts(DataArrays(P)) :
             inputs = [min |-> m, lighthouseCheckResults |-> r, outputDirectory |-> ""]
    /\ args = NoValue
    /\ failures = NoValue
    /\ setFailedCalls = <<>>
    /\ validateCalls = <<>>
    /\ promise = "none"
    /\ unhandled = <<>>
    /\ NoTrace

RunIndexJs ==
    /\ pc = "start"
    /\ pc' = "done"
    /\ LET min == [c \in Categories |-> normalizeInput(inputs.min[c])]
           a == [min |-> min, results |-> InputString(inputs.lighthouseCheckResults)]
           out == TryIndexJs(inputs)
       IN  /\ args' = IF AnyThreshold(min) THEN a ELSE NoValue
           /\ failures' = IF AnyThreshold(min) THEN getFailureMessages(a) ELSE NoValue
           /\ setFailedCalls' = IF out.threw THEN <<out.message>> ELSE <<>>
    /\ UNCHANGED <<inputs, validateCalls, promise, unhandled>>
    /\ UNCHANGED traceVars

Next == RunIndexJs

Spec == InitIndexJs /\ [][Next]_vars

---------------------------------------------------------------------------
(* The two entry points that delegate to validateStatus, a function of the *)
(* package @foo-software/lighthouse-check. Its code is not part of this    *)
(* repository: a call of it throws, or returns a promise that is resolved  *)
(* or rejected later.                                                      *)

formatInput(input) == IF input = "" THEN Undefined ELSE Str(input)

\* the messages of the errors validateStatus fails with
ExternalMessages == {"validateStatus failed"}

AllScoresMissing == "All scores were missing from Lighthouse result."

\* what the synchronous part of a try block comes to: an error thrown, a
\* call of validateStatus, or its end
ThrewInTry(msg) == [kind |-> "threw", message |-> msg]
CallInTry(a) == [kind |-> "call", args |-> a]
EndOfTry == [kind |-> "end"]

\* src/unnamed/part_001, lines 13-46
TryPart001(in) ==
    LET min == [c \in Categories |-> formatInput(in.min[c])]
        parsed == JSONparse(in.lighthouseCheckResults)
    IN  IF parsed.threw THEN ThrewInTry(parsed.message)
        ELSE IF AnyThreshold(min)
             THEN LET data == Prop(parsed.value, "data")
                  IN  IF data.threw THEN ThrewInTry(data.message)
                      ELSE CallInTry([min |-> min, results |-> data.value, verbose |-> TRUE])
             ELSE EndOfTry

\* TryStatus with line 298 parsing the text without taking `.data`: the
\* runtimeError is then read from the document itself.
TryStatusTopLevel(in) ==
    LET min == [c \in Categories |-> formatInput(in.min[c])]
        outputDirectory == formatInput(in.outputDirectory)
        text == InputString(in.lighthouseCheckResults)
        parsed == JSONparse(in.lighthouseCheckResults)
        results == IF Truthy(text) THEN parsed.value ELSE text
        runtimeError == Prop(results, "runtimeError")
    IN  IF Truthy(text) /\ parsed.threw THEN ThrewInTry(parsed.message)
        ELSE IF AnyThreshold(min)
             THEN CallInTry([min |-> min, outputDirectory |-> outputDirectory,
                             results |-> results, verbose |-> TRUE])
        ELSE IF runtimeError.threw THEN ThrewInTry(runtimeError.message)
        ELSE IF Truthy(runtimeError.value)
             THEN ThrewInTry(TemplateString(runtimeError.value))
        ELSE ThrewInTry(AllScoresMissing)

\* main-thread-tasks.js, lines 280-323
TryStatus(in) ==
    LET min == [c \in Categories |-> formatInput(in.min[c])]
        outputDirectory == formatInput(in.outputDirectory)
        text == InputString(in.lighthouseCheckResults)
        parsed == JSONparse(in.lighthouseCheckResults)
        data == Prop(parsed.value, "data")
        \* `results` after line 299
        results == IF Truthy(text) THEN data.value ELSE text
        runtimeError == Prop(results, "runtimeError")
    IN  IF Truthy(text) /\ parsed.threw THEN ThrewInTry(parsed.message)
        ELSE IF Truthy(text) /\ data.threw THEN ThrewInTry(data.message)
        ELSE IF AnyThreshold(min)
             THEN CallInTry([min |-> min, outputDirectory |-> outputDirectory,
                             results |-> results, verbose |-> TRUE])
        ELSE IF runtimeError.threw THEN ThrewInTry(runtimeError.message)
        ELSE IF Truthy(runtimeError.value)
             THEN ThrewInTry(TemplateString(runtimeError.value))
        ELSE ThrewInTry(AllScoresMissing)

InitDelegating ==
    /\ pc = "start"
    /\ \E P \in PlaySets :
         \E m \in ThresholdInputs(P) :
           \E r \in ResultsTexts(PlainArrays) :
             \E o \in OutputDirectories :
               inputs = [min |-> m, lighthouseCheckResults |-> r, outputDirectory |-> o]
    /\ args = NoValue
    /\ failures = NoValue
    /\ setFailedCalls = <<>>
    /\ validateCalls = <<>>
    /\ promise = "none"
    /\ unhandled = <<>>
    /\ NoTrace

\* part_001: the async function runs to its end; validateStatus is called
\* without await, so its promise is left pending behind the run
StartPart001 ==
    /\ pc = "start"
    /\ LET t == TryPart001(inputs)
       IN  IF t.kind = "call"
           THEN \E threw \in BOOLEAN :
                  /\ validateCalls' = Append(validateCalls, t.args)
                  /\ IF threw
                     THEN \E msg \in ExternalMessages :
                            /\ setFailedCalls' = Append(setFailedCalls, msg)
                            /\ promise' = promise
                     ELSE /\ promise' = "pending"
                          /\ setFailedCalls' = setFailedCalls
           ELSE /\ validateCalls' = validateCalls
                /\ promise' = promise
                /\ setFailedCalls' = IF t.kind = "threw"
                                     THEN Append(setFailedCalls, t.message)
                                     ELSE setFailedCalls
    /\ pc' = "done"
    /\ UNCHANGED <<inputs, args, failures, unhandled>>
    /\ UNCHANGED traceVars

\* the promise nobody awaits settles: a rejection reaches no handler
SettlePart001 ==
    /\ pc = "done"
    /\ promise = "pending"
    /\ \E rejected \in BOOLEAN :
         IF rejected
         THEN \E msg \in ExternalMessages :
                /\ promise' = "rejected"
                /\ unhandled' = Append(unhandled, msg)
         ELSE /\ promise' = "resolved"
              /\ unhandled' = unhandled
    /\ UNCHANGED <<pc, inputs, args, failures, setFailedCalls, validateCalls>>
    /\ UNCHANGED traceVars

NextPart001 == StartPart001 \/ SettlePart001

SpecPart001 == InitDelegating /\ [][NextPart001]_vars

\* main-thread-tasks.js, lines 279-327: the run up to `await`
StartStatus ==
    /\ pc = "start"
    /\ LET t == TryStatus(inputs)
       IN  IF t.kind = "call"
           THEN \E threw \in BOOLEAN :
                  /\ validateCalls' = Append(validateCalls, t.args)
                  /\ IF threw
                     THEN \E msg \in ExternalMessages :
                            /\ setFailedCalls' = Append(setFailedCalls, msg)
                            /\ promise' = promise
                            /\ pc' = "done"
                     ELSE /\ promise' = "pending"
                          /\ setFailedCalls' = setFailedCalls
                          /\ pc' = "awaiting"
           ELSE /\ validateCalls' = validateCalls
                /\ promise' = promise
                /\ setFailedCalls' = Append(setFailedCalls, t.message)
                /\ pc' = "done"
    /\ UNCHANGED <<inputs, args, failures, unhandled>>
    /\ UNCHANGED traceVars

\* the awaited promise settles: a rejection is thrown at `await`, inside
\* the try block
SettleStatus ==
    /\ pc = "awaiting"
    /\ promise = "pending"
    /\ \E rejected \in BOOLEAN :
         IF rejected
         THEN \E msg \in ExternalMessages :
                /\ promise' = "rejected"
                /\ setFailedCalls' = Append(setFailedCalls, msg)
         ELSE /\ promise' = "resolved"
              /\ setFailedCalls' = setFailedCalls
    /\ pc' = "done"
    /\ UNCHANGED <<inputs, args, failures, validateCalls, unhandled>>
    /\ UNCHANGED traceVars

NextStatus == StartStatus \/ SettleStatus

SpecStatus == InitDelegating /\ [][NextStatus]_vars

---------------------------------------------------------------------------
(* MainThreadTasks._createTasksFromEvents, main-thread-tasks.js lines      *)
(* 78-145. A TaskNode is kept with its event, startTime, endTime and       *)
(* parent; the parent is the index of the parent's TaskNode in `tasks`,    *)
(* 0 for undefined (children is the inverse of parent). The events drawn   *)
(* are Complete, Begin and End events; line 95 skips every other phase.    *)

\* the value of `undefined` for a TaskNode reference
NoTask == 0

\* the trace events with timestamp ts; dur 0 also stands for a missing dur
\* (`event.dur || 0`)
EventsAt(ts) ==
    {[ph |-> "X", ts |-> ts, dur |-> d] : d \in 0..MaxDur}
        \cup {[ph |-> p, ts |-> ts, dur |-> 0] : p \in {"B", "E"}}

\* the sequences of n trace events in timestamp order, none before `from`
RECURSIVE Traces(_, _)
Traces(n, from) ==
    IF n = 0 THEN {<<>>}
    ELSE UNION {{<<e>> \o rest : rest \in Traces(n - 1, e.ts)} :
                  e \in UNION {EventsAt(ts) : ts \in from..MaxTs}}

\* the timestamp tracing stopped at
traceEndTs == MaxTs + MaxDur

\* Number.isFinite
IsFinite(x) == x.t = "number"

\* lines 49-67
_createNewTaskNode(event, parent) ==
    [event |-> event,
     startTime |-> Num(event.ts),
     endTime |-> IF event.ph = "X" THEN Num(event.ts + event.dur) ELSE NaN,
     parent |-> parent]

\* the while loop of lines 99-105: leave the tasks that ended by `ts`
RECURSIVE EndedBy(_, _, _)
EndedBy(ts, list, current) ==
    IF current # NoTask /\ IsFinite(list[current].endTime) /\ list[current].endTime.v <= ts
    THEN EndedBy(ts, list, list[current].parent)
    ELSE current

\* the while loop of lines 137-141: give traceEndTs to the tasks from
\* `current` upwards, as long as their endTime is not finite
RECURSIVE FinishFrom(_, _)
FinishFrom(list, current) ==
    IF current # NoTask /\ ~IsFinite(list[current].endTime)
    THEN FinishFrom([list EXCEPT ![current].endTime = Num(traceEndTs)], list[current].parent)
    ELSE list

UnexpectedEndEvent == "Fatal trace logic error - unexpected end event"
ExpectedStartEvent(ph) == "Fatal trace logic error - expected start event, got " \o ph

InitTasks ==
    /\ pc = "events"
    /\ \E n \in 0..MaxEvents : mainThreadEvents \in Traces(n, 0)
    /\ eventIndex = 1
    /\ tasks = <<>>
    /\ currentTask = NoTask
    /\ thrown = ""
    /\ inputs = NoValue
    /\ args = NoValue
    /\ failures = NoValue
    /\ setFailedCalls = <<>>
    /\ validateCalls = <<>>
    /\ promise = "none"
    /\ unhandled = <<>>

\* one iteration of the for loop, lines 85-134
ProcessEvent ==
    /\ pc = "events"
    /\ eventIndex <= Len(mainThreadEvents)
    /\ LET event == mainThreadEvents[eventIndex]
           current == EndedBy(event.ts, tasks, currentTask)
       IN  IF current = NoTask
           THEN IF event.ph = "E"
                THEN /\ thrown' = UnexpectedEndEvent
                     /\ pc' = "threw"
                     /\ currentTask' = current
                     /\ tasks' = tasks
                ELSE /\ tasks' = Append(tasks, _createNewTaskNode(event, NoTask))
                     /\ currentTask' = Len(tasks) + 1
                     /\ UNCHANGED <<pc, thrown>>
           ELSE IF event.ph \in {"X", "B"}
                THEN /\ tasks' = Append(tasks, _createNewTaskNode(event, current))
                     /\ currentTask' = Len(tasks) + 1
                     /\ UNCHANGED <<pc, thrown>>
           ELSE IF tasks[current].event.ph # "B"
                THEN /\ thrown' = ExpectedStartEvent(tasks[current].event.ph)
                     /\ pc' = "threw"
                     /\ currentTask' = current
                     /\ tasks' = tasks
                ELSE /\ tasks' = [tasks EXCEPT ![current].endTime = Num(event.ts)]
                     /\ currentTask' = tasks[current].parent
                     /\ UNCHANGED <<pc, thrown>>
    /\ eventIndex' = eventIndex + 1
    /\ UNCHANGED <<mainThreadEvents, inputs, args, failures, setFailedCalls, validateCalls,
                   promise, unhandled>>

\* after the last event: lines 137-144, up to the return of `tasks`
FinishOpenTasks ==
    /\ pc = "events"
    /\ eventIndex > Len(mainThreadEvents)
    /\ tasks' = FinishFrom(tasks, currentTask)
    /\ pc' = "returned"
    /\ UNCHANGED <<mainThreadEvents, eventIndex, currentTask, thrown, inputs, args, failures,
                   setFailedCalls, validateCalls, promise, unhandled>>

NextTasks == ProcessEvent \/ FinishOpenTasks

SpecTasks == InitTasks /\ [][NextTasks]_vars

---------------------------------------------------------------------------
(* Properties of getFailureMessages, under SpecEval.                       *)

\* getFailureMessages has returned a list
EvalReturned == pc = "done" /\ failures # NoValue /\ ~failures.threw

\* the AuditResults getFailureMessages was given
EvalData == args.results.data.v

\* a threshold given as a decimal text
DecimalThreshold(m) == m.t = "string" /\ Number(m).t = "number"

\* the message the specification prescribes for result r and category c,
\* threshold m, score sc
PrescribedMessage(r, c, m, sc) ==
    r.url \o ": " \o DisplayName(c) \o ": minimum score: " \o m.v
          \o ", actual score: " \o ToString(sc.v)

\* r violates the threshold m of category c: both are numbers and the score
\* is the smaller
Violates(r, c, m) ==
    /\ DecimalThreshold(m)
    /\ r.scores[c].t = "number"
    /\ r.scores[c].v < Number(m).v

InList(x, list) == \E k \in DOMAIN list : list[k] = x

\* every text a message about result r and category c can be
MessagesAbout(r, c) ==
    LET head == r.url \o ": " \o DisplayName(c) \o ": minimum score: "
    IN  {head \o TemplateString(m) \o ", actual score: " \o TemplateString(sc) :
            m \in {normalizeInput(t) : t \in ThresholdTexts}, sc \in ScoreValues}

\* C1: every result whose numeric score (0 included) is below the set
\* threshold of a category has its message
\* '<url>: <name>: minimum score: <threshold>, actual score: <score>'
\* in the failure list.
C1_LowScoreReported ==
    EvalReturned =>
        \A i \in DOMAIN EvalData : \A c \in Categories :
            Violates(EvalData[i], c, args.min[c]) =>
                InList(PrescribedMessage(EvalData[i], c, args.min[c], EvalData[i].scores[c]),
                       failures.value)

\* C2: a message about a (result, category) pair is in the failure list
\* only if the category's threshold is set and the result has a score for
\* the category; and the list holds nothing but such messages.
C2_OnlySetAndScored ==
    EvalReturned =>
        /\ \A k \in DOMAIN failures.value :
              \A i \in DOMAIN EvalData : \A c \in Categories :
                  (args.min[c] = Undefined \/ EvalData[i].scores[c] = Undefined) =>
                      failures.value[k] \notin MessagesAbout(EvalData[i], c)
        /\ \A k \in DOMAIN failures.value :
              \E i \in DOMAIN EvalData : \E c \in Categories :
                  failures.value[k] \in MessagesAbout(EvalData[i], c)

\* C2's case: one result with a low score in a category without threshold
\* and no score in a category with a threshold, while the list is not empty
C2_Witness ==
    /\ EvalReturned
    /\ failures.value # <<>>
    /\ \E i \in DOMAIN EvalData : \E c, d \in Categories :
          /\ args.min[c] = Undefined /\ EvalData[i].scores[c] = Num(50)
          /\ args.min[d] = Str("95") /\ EvalData[i].scores[d] = Undefined

\* the messages of the violations of result r, in category order from
\* position j on
RECURSIVE ViolationsOfResult(_, _, _)
ViolationsOfResult(min, r, j) ==
    IF j > Len(CategoryOrder) THEN <<>>
    ELSE LET c == CategoryOrder[j]
         IN  (IF Violates(r, c, min[c])
              THEN <<PrescribedMessage(r, c, min[c], r.scores[c])>>
              ELSE <<>>) \o ViolationsOfResult(min, r, j + 1)

\* the messages of all violations, by result position and then category
RECURSIVE ViolationList(_, _)
ViolationList(min, data) ==
    IF data = <<>> THEN <<>>
    ELSE ViolationsOfResult(min, Head(data), 1) \o ViolationList(min, Tail(data))

\* every threshold is absent or a decimal text
PlainThresholds(min) == \A c \in Categories : min[c] = Undefined \/ DecimalThreshold(min[c])

\* C6: the failure list is exactly the list of the violating (result,
\* category) pairs, by result position and then in the order Accessibility,
\* Best Practices, Performance, Progressive Web App, SEO: each once, none
\* left out.
C6_ExactOrderedList ==
    (EvalReturned /\ PlainThresholds(args.min)) =>
        failures.value = ViolationList(args.min, EvalData)

---------------------------------------------------------------------------
(* Properties of the run of src/index.js, under Spec.                      *)

\* a threshold input that is a decimal text
DecimalText(t) == t # "" /\ DecimalThreshold(Str(t))

\* every threshold input is empty or a decimal text, and one is a decimal
PlainInputs ==
    /\ \A c \in Categories : inputs.min[c] = "" \/ DecimalText(inputs.min[c])
    /\ \E c \in Categories : DecimalText(inputs.min[c])

\* the lighthouseCheckResults text is a JSON object whose data is an array
\* of AuditResults
WellFormed(text) ==
    /\ text.form = "json"
    /\ text.doc.t = "object"
    /\ text.doc.data.t = "array"

InputData == inputs.lighthouseCheckResults.doc.data.v

InputMin == [c \in Categories |-> normalizeInput(inputs.min[c])]

\* every result has a score for every category with a threshold, and none
\* is below it
AllScoresMeet ==
    \A i \in DOMAIN InputData : \A c \in Categories :
        DecimalText(inputs.min[c]) =>
            /\ InputData[i].scores[c].t = "number"
            /\ InputData[i].scores[c].v >= Number(Str(inputs.min[c])).v

\* C3: with a threshold set and every score of a set threshold present and
\* at least the threshold, the run ends without a call of core.setFailed.
C3_MeetingScoresPass ==
    (pc = "done" /\ PlainInputs /\ WellFormed(inputs.lighthouseCheckResults) /\ AllScoresMeet)
        => setFailedCalls = <<>>

\* C7: when the list of failure messages of the payload is not empty,
\* core.setFailed is called exactly once, with the header, a newline and
\* the messages joined by newlines; when it is empty, it is not called.
C7_ReportedOnce ==
    (pc = "done" /\ PlainInputs /\ WellFormed(inputs.lighthouseCheckResults)) =>
        LET list == Reduce(InputMin, InputData, <<>>)
        IN  IF list # <<>>
            THEN setFailedCalls = <<"Minimum score requirements failed:" \o "\n" \o Join(list)>>
            ELSE setFailedCalls = <<>>

\* the only threshold input given is '0'
OnlyZeroGiven ==
    \E c \in Categories :
        /\ inputs.min[c] = "0"
        /\ \A d \in Categories \ {c} : inputs.min[d] = ""

\* C8: '0' is a threshold that is set, with the value 0: the run with '0'
\* as its only threshold input compares the scores, and ends without a
\* call of core.setFailed, the scores being non-negative; only the empty
\* text is normalized to absent.
C8_ZeroIsSet ==
    (pc = "done" /\ OnlyZeroGiven) =>
        /\ normalizeInput("0") # Undefined
        /\ Number(normalizeInput("0")) = Num(0)
        /\ \A t \in ThresholdTexts : normalizeInput(t) = Undefined <=> t = ""
        /\ args # NoValue
        /\ WellFormed(inputs.lighthouseCheckResults) => setFailedCalls = <<>>

\* C9: a threshold input that is not empty and not a number makes the run
\* fail: core.setFailed is called, and the value never reaches the score
\* comparison.
C9_NonNumericRejected ==
    (pc = "done" /\ \E c \in Categories : inputs.min[c] # "" /\ ~DecimalText(inputs.min[c]))
        => (setFailedCalls # <<>> /\ args = NoValue)

\* the messages of the errors a payload of the wrong shape raises
StructuralMessages ==
    {UnexpectedEnd, UnexpectedToken, ReduceOfUndefined, ReduceOfNull, ReduceNotFunction,
     "Cannot read properties of null (reading 'data')"}

\* C10: with a threshold set, a payload that is not the expected shape
\* makes the run fail exactly once, with the text of the structural error
\* and without a 'minimum score' message; a well-formed payload never
\* raises a structural error.
C10_OnlyMalformedAborts ==
    (pc = "done" /\ PlainInputs) =>
        IF WellFormed(inputs.lighthouseCheckResults)
        THEN \A k \in DOMAIN setFailedCalls : setFailedCalls[k] \notin StructuralMessages
        ELSE Len(setFailedCalls) = 1 /\ setFailedCalls[1] \in StructuralMessages

---------------------------------------------------------------------------
(* Properties of the run of main-thread-tasks.js, lines 279-327, under     *)
(* SpecStatus.                                                             *)

NoThresholds == \A c \in Categories : inputs.min[c] = ""

Document == inputs.lighthouseCheckResults.doc

\* the payload is empty, or a JSON object without a runtimeError, whether
\* or not it has the collection; an empty runtimeError text is none
CarriesNoRuntimeError ==
    \/ inputs.lighthouseCheckResults.form = "empty"
    \/ /\ inputs.lighthouseCheckResults.form = "json"
       /\ Document.t = "object"
       /\ Document.runtimeError = Undefined
       /\ Document.data.t = "object" => Document.data.runtimeError \in {Undefined, Str("")}

\* C4: with no threshold given and no runtimeError in the payload, no
\* score is compared and core.setFailed is called with exactly
\* 'All scores were missing from Lighthouse result.'.
C4_AllScoresMissing ==
    (pc = "done" /\ NoThresholds /\ CarriesNoRuntimeError) =>
        /\ validateCalls = <<>>
        /\ setFailedCalls = <<"All scores were missing from Lighthouse result.">>

DataCarriesRuntimeError ==
    /\ inputs.lighthouseCheckResults.form = "json"
    /\ Document.t = "object"
    /\ Document.data.t = "object"
    /\ Document.data.runtimeError.t = "string"
    /\ Document.data.runtimeError.v # ""

---------------------------------------------------------------------------
(* Properties of the runs that delegate to validateStatus, under           *)
(* SpecPart001 (src/unnamed/part_001) and SpecStatus.                      *)

\* the call of validateStatus threw before returning a promise
ValidateThrew == pc = "done" /\ validateCalls # <<>> /\ promise = "none"

\* the promise validateStatus returned was rejected
ValidateRejected == promise = "rejected"

\* C11: every failure of validateStatus, thrown by the call or a later
\* rejection of its promise, reaches the catch block: core.setFailed has
\* been called exactly once, with the error's message, the run is complete
\* only after that, and no rejection is left without a handler.
C11_ValidateFailureCaught ==
    /\ unhandled = <<>>
    /\ (ValidateThrew \/ ValidateRejected) =>
          /\ pc = "done"
          /\ Len(setFailedCalls) = 1
          /\ setFailedCalls[1] \in ExternalMessages

---------------------------------------------------------------------------
(* Properties of _createTasksFromEvents, under SpecTasks.                  *)

\* C12: when _createTasksFromEvents returns, for events in timestamp
\* order, every task of the returned list has a finite startTime and a
\* finite endTime, the Begin tasks that were never ended included.
C12_AllTasksFinite ==
    pc = "returned" =>
        \A k \in DOMAIN tasks : IsFinite(tasks[k].startTime) /\ IsFinite(tasks[k].endTime)

===========================================================================
